---- MODULE Spec2Model ----
(***************************************************************************)
(* gline-rs: the batch prompt encoder (EncodedInput::from) and the         *)
(* inference orchestration (Model::inference, GLiNER::inference).          *)
(*                                                                         *)
(* One behaviour is one call of GLiNER::inference on one batch of prompts. *)
(* Pre-processing is the encoder, modelled statement by statement: the     *)
(* first pass (one step per tokenizer call), then the second pass (one     *)
(* step per written sub-word token).  Rows are functions over              *)
(* 0..max_tokens-1, as the Rust vectors are; a write outside the row is a  *)
(* panic.                                                                  *)
(***************************************************************************)
EXTENDS Integers, Sequences, FiniteSets, TLC

\* ---------------------------------------------------------------- bounds
\* at most this many prompts in a batch
MaxPrompts == 2
\* the tokenizer splits a unit in at most this many sub-word tokens
MaxSubLen == 2
\* at most this many sub-word tokens in a whole batch
MaxBatchTokens == 8

\* ------------------------------------------------------ program constants
InitialToken == 1
TerminalToken == 2
Padding == 0

\* ------------------------------------------------------------ the inputs
(* A unit ("word" in the source) is modelled by the number k of sub-word   *)
(* tokens the tokenizer yields for it; its ids are 10k+1 .. 10k+k, so the  *)
(* order of the tokens of a unit and the length class of a unit are        *)
(* visible in input_ids.                                                   *)
Encode(word) == [j \in 1..word |-> 10 * word + j]

Min(a, b) == IF a < b THEN a ELSE b

RECURSIVE SumSeq(_)
SumSeq(s) == IF s = <<>> THEN 0 ELSE Head(s) + SumSeq(Tail(s))

\* every sequence of units with at most c sub-word tokens in total
RECURSIVE WordSeqs(_)
WordSeqs(c) ==
    {<<>>} \cup UNION {{<<k>> \o s : s \in WordSeqs(c - k)} : k \in 1..Min(MaxSubLen, c)}

(* A prompt: entities_len label units, then the separator unit (at index   *)
(* entities_len, 0-based), then the real words.                            *)
PromptsOf(c) ==
    UNION {{[tokens |-> s, entities_len |-> l] : l \in 0..(Len(s) - 1)} :
              s \in WordSeqs(c) \ {<<>>}}

tokens(prompt) == prompt.tokens
entities_len(prompt) == prompt.entities_len
text_len(prompt) == Len(prompt.tokens) - prompt.entities_len - 1

RECURSIVE Batches(_, _)
Batches(n, c) ==
    {<<>>} \cup
    (IF n = 0 THEN {}
     ELSE UNION {{<<p>> \o b : b \in Batches(n - 1, c - SumSeq(p.tokens))} :
                    p \in PromptsOf(c)})

\* ------------------------------------------------------------- the state
VARIABLES
    prompts,              \* input.prompts
    stage,                \* Model::inference: "call", "pre", "run", "post", "returned"
    ret,                  \* what Model::inference returned ("none" before)
    trace,                \* history: the stages executed, with their outcome
    pc,                   \* EncodedInput::from: position in the function
    tokenizer,            \* history: encode calls made, and the call that failed (0: none)
    encodings, max_tokens,
    p, pos, prompt_tokens, total_tokens, total_entity_tokens,
    r, w, t, idx, word_id, input_id, attn_mask, word_mask,
    encoded,              \* result of EncodedInput::from: "none", "Ok", "Err"
    num_tokens, input_ids, attention_masks, word_masks, text_lengths

pipeVars == <<stage, ret, trace>>
firstVars == <<encodings, max_tokens, p, pos, prompt_tokens, total_tokens,
               total_entity_tokens, tokenizer>>
rowVars == <<r, w, t, idx, word_id, input_id, attn_mask, word_mask>>
outVars == <<encoded, num_tokens, input_ids, attention_masks, word_masks, text_lengths>>
vars == <<prompts, pc, pipeVars, firstVars, rowVars, outVars>>

Init ==
    /\ prompts \in Batches(MaxPrompts, MaxBatchTokens)
    /\ stage = "call" /\ ret = "none" /\ trace = <<>>
    /\ pc = "idle"
    /\ tokenizer = [calls |-> 0, failed_at |-> 0]
    /\ encodings = <<>> /\ max_tokens = 0
    /\ p = 0 /\ pos = 0 /\ prompt_tokens = <<>>
    /\ total_tokens = 0 /\ total_entity_tokens = 0
    /\ r = 0 /\ w = 0 /\ t = 0 /\ idx = 0 /\ word_id = 0
    /\ input_id = <<>> /\ attn_mask = <<>> /\ word_mask = <<>>
    /\ encoded = "none" /\ num_tokens = 0
    /\ input_ids = <<>> /\ attention_masks = <<>> /\ word_masks = <<>>
    /\ text_lengths = <<>>


\* ------------------------------------------------ Model::inference, entry
(* GLiNER::inference forwards to Model::inference, whose first statement   *)
(* applies the pre-processor: the encoder starts.                          *)
\* a mutant: the width starts at the room for the two marker tokens
InitialMaxTokensOff == Cardinality({InitialToken, TerminalToken})
InitialMaxTokens == 0

Inference ==
    /\ stage = "call"
    /\ stage' = "pre"
    /\ pc' = "outer"
    /\ encodings' = <<>>
    /\ max_tokens' = InitialMaxTokens
    /\ p' = 0
    /\ UNCHANGED <<prompts, ret, trace, pos, prompt_tokens, total_tokens,
                   total_entity_tokens, tokenizer, rowVars, outVars>>

\* ------------------------------------------- EncodedInput::from, first pass
InitialTotalTokens == 2

\* for prompt in &input.prompts: the next prompt is taken
NextPrompt ==
    /\ pc = "outer"
    /\ p < Len(prompts)
    /\ prompt_tokens' = <<>>
    /\ total_tokens' = InitialTotalTokens
    /\ total_entity_tokens' = 0
    /\ pos' = 0
    /\ pc' = "inner"
    /\ UNCHANGED <<prompts, pipeVars, encodings, max_tokens, p, tokenizer,
                   rowVars, outVars>>

\* the entity part: the units at position <= entities_len
EntityTokens(position, prompt, total, n) ==
    IF position <= entities_len(prompt) THEN total + n ELSE total

\* tokenizer.encode(word) succeeds
EncodeWordOk ==
    /\ pc = "inner"
    /\ pos < Len(tokens(prompts[p + 1]))
    /\ LET prompt == prompts[p + 1]
           encoding == Encode(tokens(prompt)[pos + 1])
       IN  /\ total_tokens' = total_tokens + Len(encoding)
           /\ total_entity_tokens' =
                  EntityTokens(pos, prompt, total_entity_tokens, Len(encoding))
           /\ prompt_tokens' = Append(prompt_tokens, encoding)
    /\ pos' = pos + 1
    /\ tokenizer' = [tokenizer EXCEPT !.calls = @ + 1]
    /\ UNCHANGED <<prompts, pc, pipeVars, encodings, max_tokens, p, rowVars, outVars>>

\* a mutant: the failure is swallowed and the unit encoded as nothing
EncodeWordErrSwallowed ==
    /\ pc = "inner"
    /\ pos < Len(tokens(prompts[p + 1]))
    /\ prompt_tokens' = Append(prompt_tokens, <<>>)
    /\ pos' = pos + 1
    /\ tokenizer' = [calls |-> tokenizer.calls + 1, failed_at |-> tokenizer.calls + 1]
    /\ UNCHANGED <<prompts, pc, pipeVars, encodings, max_tokens, p, total_tokens,
                   total_entity_tokens, rowVars, outVars>>

\* tokenizer.encode(word) fails: the ? operator returns the failure
EncodeWordErr ==
    /\ pc = "inner"
    /\ pos < Len(tokens(prompts[p + 1]))
    /\ tokenizer' = [calls |-> tokenizer.calls + 1, failed_at |-> tokenizer.calls + 1]
    /\ encoded' = "Err"
    /\ pc' = "failed"
    /\ UNCHANGED <<prompts, pipeVars, encodings, max_tokens, p, pos, prompt_tokens,
                   total_tokens, total_entity_tokens, rowVars, num_tokens, input_ids,
                   attention_masks, word_masks, text_lengths>>

\* mutants: the last prompt's total wins; the totals are accumulated
UpdateMaxTokensLast(current, total) == total
UpdateMaxTokensSum(current, total) == current + total
UpdateMaxTokens(current, total) == IF total > current THEN total ELSE current

\* the units of the prompt are exhausted: push the encoded prompt
PushPrompt ==
    /\ pc = "inner"
    /\ pos = Len(tokens(prompts[p + 1]))
    /\ encodings' = Append(encodings, [encoding |-> prompt_tokens,
                                       text_offset |-> total_entity_tokens])
    /\ max_tokens' = UpdateMaxTokens(max_tokens, total_tokens)
    /\ p' = p + 1
    /\ pc' = "outer"
    /\ UNCHANGED <<prompts, pipeVars, pos, prompt_tokens, total_tokens,
                   total_entity_tokens, tokenizer, rowVars, outVars>>

\* ------------------------------------------ EncodedInput::from, second pass
\* the prompts are exhausted: the three matrices are created with no row
AllocateOutputs ==
    /\ pc = "outer"
    /\ p = Len(prompts)
    /\ input_ids' = <<>>
    /\ attention_masks' = <<>>
    /\ word_masks' = <<>>
    /\ r' = 0
    /\ pc' = "rows"
    /\ UNCHANGED <<prompts, pipeVars, firstVars, w, t, idx, word_id, input_id,
                   attn_mask, word_mask, encoded, num_tokens, text_lengths>>

ZeroRow(n) == [c \in 0..(n - 1) |-> Padding]

\* the state a panic leaves: the thread unwinds, nothing is returned
Panic ==
    /\ pc' = "panic"
    /\ UNCHANGED <<prompts, pipeVars, firstVars, rowVars, outVars>>

\* for encoded_prompt in encodings: the row vectors and the initial token
BeginRow ==
    /\ pc = "rows"
    /\ r < Len(encodings)
    /\ IF 0 \in DOMAIN ZeroRow(max_tokens)
       THEN /\ input_id' = [ZeroRow(max_tokens) EXCEPT ![0] = InitialToken]
            /\ attn_mask' = [ZeroRow(max_tokens) EXCEPT ![0] = 1]
            /\ word_mask' = ZeroRow(max_tokens)
            /\ idx' = 1
            /\ word_id' = 0
            /\ w' = 0
            /\ t' = 0
            /\ pc' = "word"
            /\ UNCHANGED <<prompts, pipeVars, firstVars, r, outVars>>
       ELSE Panic

\* word mask (only for non-label tokens)
MaskToken(mask, position, text_offset, id) ==
    IF position >= text_offset THEN [mask EXCEPT ![position] = id] ELSE mask

\* for token in word: one sub-word token is written
WriteToken ==
    /\ pc = "word"
    /\ w < Len(encodings[r + 1].encoding)
    /\ t < Len(encodings[r + 1].encoding[w + 1])
    /\ IF idx \in DOMAIN input_id
       THEN /\ input_id' = [input_id EXCEPT ![idx] = encodings[r + 1].encoding[w + 1][t + 1]]
            /\ attn_mask' = [attn_mask EXCEPT ![idx] = 1]
            /\ word_mask' = MaskToken(word_mask, idx, encodings[r + 1].text_offset, word_id)
            /\ idx' = idx + 1
            /\ t' = t + 1
            /\ UNCHANGED <<prompts, pc, pipeVars, firstVars, r, w, word_id, outVars>>
       ELSE Panic

\* increment word mask (if we are over the label tokens)
AdvanceWordId(position, text_offset, id) ==
    IF position >= text_offset THEN id + 1 ELSE id

\* the tokens of the unit are exhausted
EndWord ==
    /\ pc = "word"
    /\ w < Len(encodings[r + 1].encoding)
    /\ t = Len(encodings[r + 1].encoding[w + 1])
    /\ word_id' = AdvanceWordId(idx, encodings[r + 1].text_offset, word_id)
    /\ w' = w + 1
    /\ t' = 0
    /\ UNCHANGED <<prompts, pc, pipeVars, firstVars, r, idx, input_id, attn_mask,
                   word_mask, outVars>>

\* mutants: the terminal id is not written; its attention is not set
AddTerminalTokenNoId(ids, attn, position) ==
    [input_id |-> ids, attn_mask |-> [attn EXCEPT ![position] = 1]]
AddTerminalTokenNoAttention(ids, attn, position) ==
    [input_id |-> [ids EXCEPT ![position] = TerminalToken], attn_mask |-> attn]
AddTerminalToken(ids, attn, position) ==
    [input_id |-> [ids EXCEPT ![position] = TerminalToken],
     attn_mask |-> [attn EXCEPT ![position] = 1]]

\* the units are exhausted: the terminal token, then the three rows are pushed
EndRow ==
    /\ pc = "word"
    /\ w = Len(encodings[r + 1].encoding)
    /\ IF idx \in DOMAIN input_id
       THEN /\ LET row == AddTerminalToken(input_id, attn_mask, idx)
               IN  /\ input_id' = row.input_id
                   /\ attn_mask' = row.attn_mask
                   /\ input_ids' = Append(input_ids, row.input_id)
                   /\ attention_masks' = Append(attention_masks, row.attn_mask)
            /\ word_masks' = Append(word_masks, word_mask)
            /\ r' = r + 1
            /\ pc' = "rows"
            /\ UNCHANGED <<prompts, pipeVars, firstVars, w, t, idx, word_id, word_mask,
                           encoded, num_tokens, text_lengths>>
       ELSE Panic

\* the rows are exhausted: text_lengths, then Ok(Self { .. })
Finish ==
    /\ pc = "rows"
    /\ r = Len(encodings)
    /\ text_lengths' = [i \in 1..Len(prompts) |-> <<text_len(prompts[i])>>]
    /\ num_tokens' = max_tokens
    /\ encoded' = "Ok"
    /\ pc' = "built"
    /\ UNCHANGED <<prompts, pipeVars, firstVars, rowVars, input_ids, attention_masks,
                   word_masks>>

\* ------------------------------------------ Model::inference, the stages
\* a mutant: the failure of the pre-processor is dropped and the engine run
PreProcessErrIgnored ==
    /\ stage = "pre"
    /\ pc = "failed"
    /\ trace' = Append(trace, [stage |-> "pre", ok |-> FALSE])
    /\ stage' = "run"
    /\ UNCHANGED <<prompts, pc, ret, firstVars, rowVars, outVars>>

\* pipeline.pre_processor(params).apply(input)? : the encoder failed
PreProcessErr ==
    /\ stage = "pre"
    /\ pc = "failed"
    /\ trace' = Append(trace, [stage |-> "pre", ok |-> FALSE])
    /\ ret' = "Err(pre)"
    /\ stage' = "returned"
    /\ UNCHANGED <<prompts, pc, firstVars, rowVars, outVars>>

\* pipeline.pre_processor(params).apply(input)? : the encoder succeeded
PreProcessOk ==
    /\ stage = "pre"
    /\ pc = "built"
    /\ trace' = Append(trace, [stage |-> "pre", ok |-> TRUE])
    /\ stage' = "run"
    /\ UNCHANGED <<prompts, pc, ret, firstVars, rowVars, outVars>>

\* self.run(input)? : the engine, whose outcome is its own
Run ==
    /\ stage = "run"
    /\ \E ok \in BOOLEAN :
          /\ trace' = Append(trace, [stage |-> "run", ok |-> ok])
          /\ IF ok THEN stage' = "post" /\ ret' = ret
                   ELSE stage' = "returned" /\ ret' = "Err(run)"
    /\ UNCHANGED <<prompts, pc, firstVars, rowVars, outVars>>

\* pipeline.post_processor(params).apply((output, meta))? and Ok(output)
PostProcess ==
    /\ stage = "post"
    /\ \E ok \in BOOLEAN :
          /\ trace' = Append(trace, [stage |-> "post", ok |-> ok])
          /\ ret' = IF ok THEN "Ok" ELSE "Err(post)"
    /\ stage' = "returned"
    /\ UNCHANGED <<prompts, pc, firstVars, rowVars, outVars>>

Next ==
    \/ Inference
    \/ NextPrompt \/ EncodeWordOk \/ EncodeWordErr \/ PushPrompt
    \/ AllocateOutputs \/ BeginRow \/ WriteToken \/ EndWord \/ EndRow \/ Finish
    \/ PreProcessErr \/ PreProcessOk \/ Run \/ PostProcess

Spec == Init /\ [][Next]_vars


\* ------------------------------------------------- what the claims speak of
RECURSIVE Flatten(_)
Flatten(ss) == IF ss = <<>> THEN <<>> ELSE Head(ss) \o Flatten(Tail(ss))

\* the sub-word ids of the units of a prompt, unit by unit, from the input
UnitIds(prompt) == [j \in 1..Len(tokens(prompt)) |-> Encode(tokens(prompt)[j])]
FlatIds(prompt) == Flatten(UnitIds(prompt))
SubwordCount(prompt) == Len(FlatIds(prompt))

\* the first cell of unit u (1-based) of a prompt, after the start marker
UnitStart(prompt, u) == 1 + Len(Flatten(SubSeq(UnitIds(prompt), 1, u - 1)))

\* the unit (1-based) whose sub-word token is in cell c; 0 if none
UnitOfCell(prompt, c) ==
    LET us == {u \in 1..Len(tokens(prompt)) :
                  /\ UnitStart(prompt, u) <= c
                  /\ c < UnitStart(prompt, u) + Len(UnitIds(prompt)[u])}
    IN  IF us = {} THEN 0 ELSE CHOOSE u \in us : TRUE

\* the real-text word (1-based) of unit u, 0 for a label or the separator
WordOfUnit(prompt, u) ==
    IF u > entities_len(prompt) + 1 THEN u - (entities_len(prompt) + 1) ELSE 0

ExpectedWordMask(prompt, width) ==
    [c \in 0..(width - 1) |-> WordOfUnit(prompt, UnitOfCell(prompt, c))]

ExpectedInputIds(prompt, width) ==
    [c \in 0..(width - 1) |->
        IF c = 0 THEN InitialToken
        ELSE IF c <= SubwordCount(prompt) THEN FlatIds(prompt)[c]
        ELSE IF c = SubwordCount(prompt) + 1 THEN TerminalToken
        ELSE Padding]

ExpectedAttention(prompt, width) ==
    [c \in 0..(width - 1) |-> IF c <= SubwordCount(prompt) + 1 THEN 1 ELSE 0]

RowMax(row) == IF DOMAIN row = {} THEN 0
               ELSE CHOOSE m \in {row[c] : c \in DOMAIN row} :
                        \A c \in DOMAIN row : row[c] <= m

\* the width the batch needs: the largest 2 + sub-word count
NeededWidth ==
    CHOOSE m \in {2 + SubwordCount(prompts[i]) : i \in 1..Len(prompts)} :
        \A i \in 1..Len(prompts) : 2 + SubwordCount(prompts[i]) <= m

Built == encoded = "Ok"
HasPadding(i) == 2 + SubwordCount(prompts[i]) < num_tokens
\* a sub-word token of the current unit is about to be written
WritingToken ==
    /\ pc = "word"
    /\ w < Len(encodings[r + 1].encoding)
    /\ t < Len(encodings[r + 1].encoding[w + 1])
\* the terminal token of the current row is about to be written
WritingTerminal == pc = "word" /\ w = Len(encodings[r + 1].encoding)

\* C1: once the batch is encoded, each cell of each word_masks row holds k >= 1
\* exactly when it holds a sub-word token of the k-th real-text word of that
\* prompt and 0 in every other cell, so the maximum of the row is word_count.
C1_WordMaskRule ==
    Built => \A i \in 1..Len(prompts) :
                /\ word_masks[i] = ExpectedWordMask(prompts[i], num_tokens)
                /\ RowMax(word_masks[i]) = text_len(prompts[i])

\* C2: each input_ids row is the start marker 1, the sub-word ids of the units
\* in unit order, the end marker 2 at position n+1, then 0 up to the width.
C2_InputIdsRule ==
    Built => \A i \in 1..Len(prompts) :
                input_ids[i] = ExpectedInputIds(prompts[i], num_tokens)

C2_Witness ==
    /\ Built
    /\ \E i \in 1..Len(prompts) :
          /\ HasPadding(i)
          /\ \E j \in 1..Len(tokens(prompts[i])) : tokens(prompts[i])[j] >= 2
          /\ input_ids[i][SubwordCount(prompts[i]) + 1] = TerminalToken

\* C3: for a non-empty batch num_tokens is the maximum over the prompts of
\* 2 + sub-word count, there is one row per prompt in prompt order, and every
\* row of the three matrices has exactly that length.
C3_WidthConsistency ==
    (Built /\ prompts # <<>>) =>
        /\ num_tokens = NeededWidth
        /\ Len(input_ids) = Len(prompts)
        /\ Len(attention_masks) = Len(prompts)
        /\ Len(word_masks) = Len(prompts)
        /\ \A i \in 1..Len(prompts) :
              /\ DOMAIN input_ids[i] = 0..(num_tokens - 1)
              /\ DOMAIN attention_masks[i] = 0..(num_tokens - 1)
              /\ DOMAIN word_masks[i] = 0..(num_tokens - 1)
              /\ input_ids[i][SubwordCount(prompts[i]) + 1] = TerminalToken

C3_Witness ==
    /\ Built
    /\ Len(prompts) = 2
    /\ SubwordCount(prompts[1]) < SubwordCount(prompts[2])
    /\ num_tokens = 2 + SubwordCount(prompts[2])
    /\ Len(input_ids) = 2

\* C4: in each row attention_masks is 1 exactly at the cells 0..n+1 (start
\* marker, sub-word tokens, end marker) and 0 at every padding cell: 2 + n ones
\* and token_width - (2 + n) zeros.
C4_AttentionRule ==
    Built => \A i \in 1..Len(prompts) :
                /\ attention_masks[i] = ExpectedAttention(prompts[i], num_tokens)
                /\ Cardinality({c \in DOMAIN attention_masks[i] : attention_masks[i][c] = 1})
                       = 2 + SubwordCount(prompts[i])
                /\ Cardinality({c \in DOMAIN attention_masks[i] : attention_masks[i][c] = 0})
                       = num_tokens - (2 + SubwordCount(prompts[i]))

C4_Witness ==
    /\ Built
    /\ \E i \in 1..Len(prompts) :
          /\ HasPadding(i)
          /\ attention_masks[i][SubwordCount(prompts[i]) + 1] = 1
          /\ attention_masks[i][num_tokens - 1] = 0

\* C5: when encode fails for a unit, the first pass stops at that unit (no
\* later unit is encoded), EncodedInput::from returns the failure, and no row
\* is materialized.
C5_FailFast ==
    tokenizer.failed_at > 0 =>
        /\ tokenizer.calls = tokenizer.failed_at
        /\ pc = "failed"
        /\ encoded = "Err"
        /\ input_id = <<>> /\ attn_mask = <<>> /\ word_mask = <<>>
        /\ input_ids = <<>> /\ attention_masks = <<>> /\ word_masks = <<>>
        /\ text_lengths = <<>>

\* the failure is returned while a later unit and a later prompt are left
C5_Witness ==
    /\ tokenizer.failed_at >= 2
    /\ stage = "returned"
    /\ p + 1 < Len(prompts)
    /\ pos + 1 < Len(tokens(prompts[p + 1]))

StageNames == <<"pre", "run", "post">>

\* C6: in a call of Model::inference the stages run in the order pre-process,
\* engine run, post-process, each at most once; a stage runs only if the ones
\* before it succeeded, and the call returns the error of the first failing
\* stage (Ok only after the three succeeded).
C6_StageOrder ==
    /\ Len(trace) <= 3
    /\ \A k \in 1..Len(trace) :
          /\ trace[k].stage = StageNames[k]
          /\ k < Len(trace) => trace[k].ok
    /\ Len(trace) >= 1 => (trace[1].ok <=> encoded = "Ok")
    /\ stage = "returned" =>
          /\ trace # <<>>
          /\ ret = IF trace[Len(trace)].ok THEN "Ok"
                   ELSE IF Len(trace) = 1 THEN "Err(pre)"
                   ELSE IF Len(trace) = 2 THEN "Err(run)" ELSE "Err(post)"
          /\ trace[Len(trace)].ok => Len(trace) = 3
    /\ stage # "returned" =>
          /\ ret = "none"
          /\ \A k \in 1..Len(trace) : trace[k].ok

\* the pre-processor fails and the call returns its error, the engine not run
C6_Witness ==
    /\ stage = "returned"
    /\ ret = "Err(pre)"
    /\ trace = <<[stage |-> "pre", ok |-> FALSE]>>

\* C7: on a batch with no prompts EncodedInput::from raises no failure, writes
\* no marker, and yields num_tokens = 0 and three matrices with zero rows.
C7_EmptyBatch ==
    prompts = <<>> =>
        /\ pc \notin {"failed", "panic"}
        /\ tokenizer.calls = 0
        /\ input_id = <<>> /\ attn_mask = <<>>
        /\ pc = "built" =>
              /\ encoded = "Ok"
              /\ num_tokens = 0
              /\ input_ids = <<>> /\ attention_masks = <<>> /\ word_masks = <<>>

C7_Witness == prompts = <<>> /\ pc = "built" /\ encoded = "Ok"

\* C8: while a row is materialized the word counter is 0 while every label
\* token and every separator token is written, and k while the tokens of the
\* k-th real word are written (it is advanced only after the separator and
\* after each real word).
C8_WordCounterRule ==
    WritingToken => word_id = WordOfUnit(prompts[r + 1], w + 1)

\* C9: text_offset is the row position at which the first sub-word token of
\* the first real word is written.
C9_TextOffsetRule ==
    (WritingToken /\ w = entities_len(prompts[r + 1]) + 1 /\ t = 0) =>
        idx = encodings[r + 1].text_offset

\* C10: in the second pass every write index is inside the row: 0 <= idx <
\* token_width at each write, the end-marker write at idx = 1 + n included, so
\* no out-of-bounds panic is reachable.
C10_WritesInBounds ==
    /\ pc # "panic"
    /\ (WritingToken \/ WritingTerminal) =>
          /\ 0 <= idx /\ idx < max_tokens
          /\ idx \in DOMAIN input_id
          /\ idx \in DOMAIN attn_mask
          /\ idx \in DOMAIN word_mask
    /\ WritingTerminal => idx = 1 + SubwordCount(prompts[r + 1])

\* the end marker is about to be written in the last cell of the widest row,
\* after a shorter row
C10_Witness ==
    /\ WritingTerminal
    /\ r = 1
    /\ idx = max_tokens - 1
    /\ SubwordCount(prompts[1]) < SubwordCount(prompts[2])

====
